---------------------------- MODULE Spec2Model ----------------------------
(***************************************************************************)
(* A model of the caching layer of caching-lecture-13/caching_complete.py: *)
(* the Redis-backed cache helpers (cache_get, cache_set, cache_delete,     *)
(* cache_delete_pattern), the cache-aside and write-through product        *)
(* handlers, the product-list query cache and the fixed-window rate        *)
(* limiter; and of the failed-login lockout of login_stateful in           *)
(* authentication_lecture/authentication_complete.py.                      *)
(*                                                                         *)
(* The Redis client (fakeredis.FakeRedis(decode_responses=True)) is        *)
(* modelled by the documented semantics of the commands the code issues:   *)
(* GET, SETEX, DEL, SCAN MATCH, INCR, EXPIRE, TTL.  Every command is       *)
(* atomic; a key whose expiry time has been reached is absent for every    *)
(* command and is removed from the key space when a command touches it.    *)
(*                                                                         *)
(* Time is a discrete clock `now`.  TTLs are counted in clock ticks; the   *)
(* TTL constants of the code (3600 s, 300 s, 60 s) are scaled to a few     *)
(* ticks each.                                                             *)
(***************************************************************************)
EXTENDS Integers, Sequences, FiniteSets, TLC

VARIABLES
    store,      \* the Redis key space: a function from the keys present to entries
    now,        \* the clock, in ticks
    db,         \* the products table: product id -> row, or NoRow
    req,        \* per request-handler slot: the handler's position and locals
    last,       \* the last cache-helper call made directly on the store, with its result
    returned,   \* per counter key: the values INCR returned since the key was created
    admitted,   \* per clock tick: the requests the rate limiter counted within the limit
    issued,     \* per session token issued: when it was stored and whether it was logged out
    serial,     \* TRUE when the server handles one request at a time
    login_attempts, \* authentication: per client address, the failed-login record
    sessions_db     \* authentication: the session ids of the stateful logins

vars == <<store, now, db, req, last, returned, admitted, issued, serial, login_attempts, sessions_db>>

----------------------------------------------------------------------------
(* Bounds of the model *)

MaxTime == 2            \* the clock stops advancing here
MaxProducts == 2        \* rows the products table can ever hold
MaxVer == 2             \* distinct contents a product row can take
NumHandlers == 2        \* request handlers that may run concurrently
MaxTtl == 2             \* largest ttl passed to cache_set directly
ProductTtl == 2         \* ttl_seconds=3600 of the product entries, in ticks
ListTtl == 1            \* ttl_seconds=300 of the product-list entries, in ticks
MinuteTicks == 2        \* the 60 seconds of a rate-limit minute, in ticks
MaxSessions == 2        \* session tokens ever issued
SessionTtl == 2         \* the 1800 seconds of a session, in ticks
MaxOver == 2            \* requests admitted to the model beyond RATE_LIMIT per counter
LockoutTicks == 2       \* the 300 seconds of a login lockout, in ticks

----------------------------------------------------------------------------
(* Python and Redis values.  Every value is a record with a tag `t`, so    *)
(* that a Python dict, the JSON text that encodes it, an integer string    *)
(* and None are four different things.                                     *)

None == [t |-> "none"]

\* An exception that leaves the function.
Raise(exc) == [t |-> "raise", exc |-> exc]

PyDict(body) == [t |-> "dict", body |-> body]

EmptyBody == [kind |-> "empty"]

ProductBody(id, ver) == [kind |-> "product", id |-> id, ver |-> ver]

ListBody(data, total, page) ==
    [kind |-> "list", data |-> data, total |-> total, page |-> page]

\* Python truthiness: None, the empty dict and the empty string are falsy.
Truthy(x) ==
    CASE x.t = "none" -> FALSE
      [] x.t = "dict" -> x.body.kind # "empty"
      [] x.t = "str"  -> TRUE      \* JSON text and integer text are never ""
      [] OTHER        -> TRUE

\* json.dumps(value): the JSON text of a dict.
json_dumps(value) == [t |-> "str", json |-> value.body]

\* json.loads(text): the dict a JSON text encodes.
json_loads(text) == [t |-> "dict", body |-> text.json]

\* The string Redis keeps for an integer counter.
IntStr(n) == [t |-> "str", int |-> n]

----------------------------------------------------------------------------
(* Keys.  A key is a sequence of tokens; "products" is the two tokens      *)
(* "product","s", so that "product:1" and "products:list:..." share a      *)
(* prefix exactly as the strings do.                                       *)

ProductIds == 1..MaxProducts

ListQueries == {"all:page1:limit10", "all:page2:limit10"}

ProductKey(id) == <<"product", ":", ToString(id)>>

ListKey(q) == <<"product", "s", ":", "list", ":", q>>

\* The pattern with its first segment misspelt: "product:list:*".
ListPatternTypo == <<"product", ":", "list", ":", "*">>

ListPattern == <<"product", "s", ":", "list", ":", "*">>

ClientIps == {"ip1"}

RateKey(ip, minute) == <<"rate", ":", ip, ":", ToString(minute)>>

\* A matcher that compares only the first token of pattern and key.
GlobMatchFirstToken(p, k) ==
    p # <<>> /\ (Head(p) = "*" \/ (k # <<>> /\ Head(p) = Head(k)))

\* Redis glob matching (stringmatchlen) restricted to literal tokens and "*".
RECURSIVE GlobMatch(_, _)
GlobMatch(p, k) ==
    IF p = <<>> THEN k = <<>>
    ELSE IF Head(p) = "*"
         THEN GlobMatch(Tail(p), k) \/ (k # <<>> /\ GlobMatch(p, Tail(k)))
         ELSE k # <<>> /\ Head(p) = Head(k) /\ GlobMatch(Tail(p), Tail(k))

----------------------------------------------------------------------------
(* The Redis key space.  An entry is [val, exp]; exp = NoExpiry for a key  *)
(* without a TTL.                                                          *)

NoExpiry == -1

Remove(s, k) == [x \in DOMAIN s \ {k} |-> s[x]]

Put(s, k, e) == [x \in DOMAIN s \cup {k} |-> IF x = k THEN e ELSE s[x]]

\* The entry of k is present but its expiry time has been reached.
Expired(s, t, k) == k \in DOMAIN s /\ s[k].exp # NoExpiry /\ t >= s[k].exp

\* k is present and has not expired: the key exists for every command.
Live(s, t, k) == k \in DOMAIN s /\ ~Expired(s, t, k)

\* Lazy expiry: a command that touches an expired key removes it.
Reap(s, t, k) == IF Expired(s, t, k) THEN Remove(s, k) ELSE s

ReapAll(s, t) == [x \in {k \in DOMAIN s : ~Expired(s, t, k)} |-> s[x]]

\* A GET that never looks at the expiry time.
RedisGetIgnoringExpiry(s, t, k) ==
    [res |-> IF k \in DOMAIN s THEN s[k].val ELSE None, store |-> s]

\* A GET that removes the expiry of the key it reads (GETEX ... PERSIST).
RedisGetPersist(s, t, k) ==
    [res |-> IF Live(s, t, k) THEN s[k].val ELSE None,
     store |-> IF Live(s, t, k) THEN Put(s, k, [val |-> s[k].val, exp |-> NoExpiry])
               ELSE Reap(s, t, k)]

\* GET key
RedisGet(s, t, k) ==
    [res |-> IF Live(s, t, k) THEN s[k].val ELSE None,
     store |-> Reap(s, t, k)]

\* A SETEX that writes only when the key does not exist (SET ... NX).
RedisSetexIfAbsent(s, t, k, ttl, v) ==
    IF ttl <= 0 THEN [res |-> "ResponseError", store |-> s]
    ELSE IF Live(s, t, k) THEN [res |-> "OK", store |-> s]
    ELSE [res |-> "OK", store |-> Put(s, k, [val |-> v, exp |-> t + ttl])]

\* A SETEX that takes a non-positive expire time for one tick.
RedisSetexCoerced(s, t, k, ttl, v) ==
    [res |-> "OK",
     store |-> Put(s, k, [val |-> v, exp |-> t + (IF ttl <= 0 THEN 1 ELSE ttl)])]

\* SETEX key seconds value.  A non-positive expire time is rejected with an error.
RedisSetex(s, t, k, ttl, v) ==
    IF ttl <= 0
    THEN [res |-> "ResponseError", store |-> s]
    ELSE [res |-> "OK", store |-> Put(s, k, [val |-> v, exp |-> t + ttl])]

\* A DEL that counts an entry whose expiry has passed as removed.
RedisDeleteCountsExpired(s, t, k) ==
    [res |-> IF k \in DOMAIN s THEN 1 ELSE 0,
     store |-> IF k \in DOMAIN s THEN Remove(s, k) ELSE s]

\* A DEL that replies as DEL does and removes nothing.
RedisDeleteReportOnly(s, t, k) ==
    [res |-> IF Live(s, t, k) THEN 1 ELSE 0, store |-> s]

\* DEL key: the number of keys removed.
RedisDelete(s, t, k) ==
    [res |-> IF Live(s, t, k) THEN 1 ELSE 0,
     store |-> IF k \in DOMAIN s THEN Remove(s, k) ELSE s]

\* A scan that yields every matching key in the key space, expired or not.
RedisScanIgnoringExpiry(s, t, p) ==
    [res |-> {k \in DOMAIN s : GlobMatch(p, k)}, store |-> s]

\* SCAN ... MATCH pattern, iterated to the end: the keys that exist and match.
RedisScan(s, t, p) ==
    [res |-> {k \in DOMAIN s : Live(s, t, k) /\ GlobMatch(p, k)},
     store |-> ReapAll(s, t)]

\* An INCR that hands back the value before the increment.
RedisIncrFetchFirst(s, t, k) ==
    IF Live(s, t, k)
    THEN [res |-> s[k].val.int,
          store |-> Put(s, k, [val |-> IntStr(s[k].val.int + 1), exp |-> s[k].exp])]
    ELSE [res |-> 0, store |-> Put(s, k, [val |-> IntStr(1), exp |-> NoExpiry])]

\* An INCR that counts on from an entry whose expiry time has been reached.
RedisIncrIgnoringExpiry(s, t, k) ==
    IF k \in DOMAIN s
    THEN [res |-> s[k].val.int + 1,
          store |-> Put(s, k, [val |-> IntStr(s[k].val.int + 1), exp |-> s[k].exp])]
    ELSE [res |-> 1, store |-> Put(s, k, [val |-> IntStr(1), exp |-> NoExpiry])]

\* INCR key: one atomic step.  A key that does not exist counts as 0 and is
\* created without a TTL; an existing key keeps its TTL.
RedisIncr(s, t, k) ==
    IF Live(s, t, k)
    THEN [res |-> s[k].val.int + 1,
          store |-> Put(s, k, [val |-> IntStr(s[k].val.int + 1), exp |-> s[k].exp])]
    ELSE [res |-> 1, store |-> Put(s, k, [val |-> IntStr(1), exp |-> NoExpiry])]

\* EXPIRE key seconds: 1 if the key exists and the timeout was set, else 0.
RedisExpire(s, t, k, ttl) ==
    IF ~Live(s, t, k) THEN [res |-> 0, store |-> Reap(s, t, k)]
    ELSE IF ttl <= 0 THEN [res |-> 1, store |-> Remove(s, k)]
    ELSE [res |-> 1, store |-> Put(s, k, [val |-> s[k].val, exp |-> t + ttl])]

\* A TTL computed from the entry whenever the key is in the key space.
RedisTtlIgnoringExpiry(s, t, k) ==
    [res |-> IF k \notin DOMAIN s THEN -2
             ELSE IF s[k].exp = NoExpiry THEN -1 ELSE s[k].exp - t,
     store |-> s]

\* TTL key: -2 if the key does not exist, -1 if it has no expiry, else the
\* time left.
RedisTtl(s, t, k) ==
    [res |-> IF ~Live(s, t, k) THEN -2
             ELSE IF s[k].exp = NoExpiry THEN -1 ELSE s[k].exp - t,
     store |-> Reap(s, t, k)]

----------------------------------------------------------------------------
(* The cache helpers. *)

\* A cache_get that hands back the stored text without decoding it.
cache_get_undecoded(s, t, key) == RedisGet(s, t, key)

cache_get(s, t, key) ==
    LET g == RedisGet(s, t, key)
    IN  [res |-> IF Truthy(g.res) THEN json_loads(g.res) ELSE None,
         store |-> g.store]

\* What a helper hands its caller after a Redis command whose reply it drops:
\* None, or the exception the client raised for an error reply.
Dropped(r) ==
    [res |-> IF r.res = "ResponseError" THEN Raise("ResponseError") ELSE None,
     store |-> r.store]

\* A cache_set that drops the ttl it is given and uses its default (300 s).
cache_set_default_ttl(s, t, key, value, ttl_seconds) ==
    Dropped(RedisSetex(s, t, key, ListTtl, json_dumps(value)))

\* redis_client.setex(key, ttl_seconds, json.dumps(value)); nothing is returned.
cache_set(s, t, key, value, ttl_seconds) ==
    Dropped(RedisSetex(s, t, key, ttl_seconds, json_dumps(value)))

\* redis_client.delete(key); the number DEL replies is not returned.
cache_delete(s, t, key) ==
    [res |-> None, store |-> RedisDelete(s, t, key).store]

\* for key in scan_iter(pattern): delete(key)
RECURSIVE DeleteEach(_, _, _)
DeleteEach(s, t, keys) ==
    IF keys = {} THEN s
    ELSE LET k == CHOOSE x \in keys : TRUE
         IN  DeleteEach(RedisDelete(s, t, k).store, t, keys \ {k})

cache_delete_pattern(s, t, pattern) ==
    LET sc == RedisScan(s, t, pattern)
    IN  [res |-> None, store |-> DeleteEach(sc.store, t, sc.res)]


----------------------------------------------------------------------------
(* Request handlers occupy slots; an idle slot holds no request.           *)

Handlers == 1..NumHandlers

Idle == [pc |-> "idle"]

Step == [op |-> "step"]

\* A server that holds one lock from the start of a request to its end: no
\* request is taken up while another is in progress.
CanStartExclusive(h) == \A g \in Handlers : req[g].pc = "idle"

\* A request is taken up by an idle slot; a server that handles one request at
\* a time takes it up only when no other request is in progress.
CanStart(h) ==
    /\ req[h].pc = "idle"
    /\ serial => \A g \in Handlers \ {h} : req[g].pc = "idle"


\* The products table.  The startup hook seeds the table when it is empty, so
\* the application never starts on an empty table; one seeded row stands for
\* the four of the code.
NoRow == [t |-> "norow"]

Row(ver) == [t |-> "row", ver |-> ver]

Vers == 1..MaxVer

seed == [i \in ProductIds |-> IF i = 1 THEN Row(1) ELSE NoRow]

InitCommon ==
    /\ store = <<>>
    /\ now = 0
    /\ db = seed
    /\ req = [h \in Handlers |-> Idle]
    /\ last = [op |-> "none"]
    /\ returned = <<>>
    /\ admitted = [t \in 0..MaxTime |-> 0]
    /\ issued = <<>>
    /\ login_attempts = <<>>
    /\ sessions_db = {}

\* The server runs handlers on a pool of threads ...
InitConcurrent == InitCommon /\ serial = FALSE

\* ... or is driven by one request at a time.
InitSerial == InitCommon /\ serial = TRUE

\* Time passes.  Nothing is removed by the passing of time alone.
Tick ==
    /\ now < MaxTime
    /\ now' = now + 1
    /\ last' = [op |-> "tick"]
    /\ UNCHANGED <<store, db, req, returned, admitted, issued, serial, login_attempts, sessions_db>>

----------------------------------------------------------------------------
(* SpecStore: the cache helpers called one at a time on the store.          *)

StoreKeys == {ProductKey(1)} \cup {ListKey(q) : q \in ListQueries}

StorePatterns == {ListPattern, <<"*">>, <<"product", "*">>, ProductKey(1)}

StoreValues == {PyDict(EmptyBody), PyDict(ProductBody(1, 1))}

TtlArgs == -1..MaxTtl

\* What the key space held for k when a call was made (recorded with the call).
PreOf(s, t, k) ==
    IF k \notin DOMAIN s THEN "absent"
    ELSE IF Expired(s, t, k) THEN "expired" ELSE "live"

StoreGetOp(k) ==
    LET r == cache_get(store, now, k)
    IN  /\ store' = r.store
        /\ last' = [op |-> "get", key |-> k, res |-> r.res, pre |-> PreOf(store, now, k)]
        /\ UNCHANGED <<now, db, req, returned, admitted, issued, serial, login_attempts, sessions_db>>

StoreSetOp(k, v, ttl) ==
    LET r == cache_set(store, now, k, v, ttl)
    IN  /\ store' = r.store
        /\ last' = [op |-> "set", key |-> k, value |-> v, ttl |-> ttl, res |-> r.res,
                     pre |-> PreOf(store, now, k)]
        /\ UNCHANGED <<now, db, req, returned, admitted, issued, serial, login_attempts, sessions_db>>

StoreDeleteOp(k) ==
    LET r == cache_delete(store, now, k)
    IN  /\ store' = r.store
        /\ last' = [op |-> "delete", key |-> k, res |-> r.res, pre |-> PreOf(store, now, k)]
        /\ UNCHANGED <<now, db, req, returned, admitted, issued, serial, login_attempts, sessions_db>>

StoreDeletePatternOp(p) ==
    LET r == cache_delete_pattern(store, now, p)
    IN  /\ store' = r.store
        /\ last' = [op |-> "delete_pattern", pattern |-> p,
                     matched |-> RedisScan(store, now, p).res]
        /\ UNCHANGED <<now, db, req, returned, admitted, issued, serial, login_attempts, sessions_db>>

NextStore ==
    \/ \E k \in StoreKeys : StoreGetOp(k)
    \/ \E k \in StoreKeys, v \in StoreValues, ttl \in TtlArgs : StoreSetOp(k, v, ttl)
    \/ \E k \in StoreKeys : StoreDeleteOp(k)
    \/ \E p \in StorePatterns : StoreDeletePatternOp(p)
    \/ Tick

SpecStore == InitSerial /\ [][NextStore]_vars


----------------------------------------------------------------------------
(* rate_limited_search: the fixed-window rate limiter.  One step per Redis *)
(* command; the handler's thread may be preempted between any two.         *)

RATE_LIMIT == 10

\* expire(rate_key, 60): the same 60 seconds as the minute of the key.
RateTtl == MinuteTicks

\* A minute number that never changes.
CurrentMinuteStuck(t) == 0

\* int(time.time() / 60)
CurrentMinute(t) == t \div MinuteTicks

\* The counter a key holds, 0 when the key does not exist.
CounterOf(s, t, k) == IF Live(s, t, k) THEN s[k].val.int ELSE 0

\* A test that takes every request for the first of its minute.
FirstInWindowAlways(request_count) == TRUE

\* if request_count == 1
FirstInWindow(request_count) == request_count = 1

\* request_count >= RATE_LIMIT: the limit test off by one.
OverLimitOffByOne(request_count) == request_count >= RATE_LIMIT

\* if request_count > RATE_LIMIT
OverLimit(request_count) == request_count > RATE_LIMIT

Waiting(k) == Cardinality({h \in Handlers : req[h].pc = "rl_incr" /\ req[h].key = k})

\* A request arrives: the handler reads the client address and the clock and
\* builds the key.
RateStart(h, ip) ==
    LET k == RateKey(ip, CurrentMinute(now))
    IN  /\ CanStart(h)
        /\ CounterOf(store, now, k) + Waiting(k) < RATE_LIMIT + MaxOver
        /\ req' = [req EXCEPT ![h] = [pc |-> "rl_incr", key |-> k, at |-> now]]
        /\ last' = Step
        /\ UNCHANGED <<store, now, db, returned, admitted, issued, serial, login_attempts, sessions_db>>

\* request_count = redis_client.incr(rate_key)
RateIncr(h) ==
    LET k == req[h].key
        r == RedisIncr(store, now, k)
        sofar == IF Live(store, now, k) /\ k \in DOMAIN returned
                 THEN returned[k] ELSE <<>>
    IN  /\ req[h].pc = "rl_incr"
        /\ store' = r.store
        /\ returned' = Put(returned, k, Append(sofar, r.res))
        /\ req' = [req EXCEPT ![h] =
                     [pc |-> IF FirstInWindow(r.res) THEN "rl_expire" ELSE "rl_ttl",
                      key |-> k, request_count |-> r.res, nth |-> Len(sofar) + 1,
                      at |-> req[h].at]]
        /\ admitted' = IF OverLimit(r.res) THEN admitted
                       ELSE [admitted EXCEPT ![now] = @ + 1]
        /\ last' = Step
        /\ UNCHANGED <<now, db, issued, serial, login_attempts, sessions_db>>

\* if request_count == 1: redis_client.expire(rate_key, 60)
RateExpire(h) ==
    LET r == RedisExpire(store, now, req[h].key, RateTtl)
    IN  /\ req[h].pc = "rl_expire"
        /\ store' = r.store
        /\ req' = [req EXCEPT ![h].pc = "rl_ttl"]
        /\ last' = Step
        /\ UNCHANGED <<now, db, returned, admitted, issued, serial, login_attempts, sessions_db>>

\* Over the limit: 429 with Retry-After = ttl(rate_key).  Otherwise the search
\* results with rate_limit_status, whose resets_in is ttl(rate_key).  The
\* response is recorded in last and the slot is free for the next request.
RateRespond(h) ==
    LET r == RedisTtl(store, now, req[h].key)
        c == req[h].request_count
    IN  /\ req[h].pc = "rl_ttl"
        /\ store' = r.store
        /\ req' = [req EXCEPT ![h] = Idle]
        /\ last' = [op |-> "rate", key |-> req[h].key, at |-> req[h].at,
                    request_count |-> c, nth |-> req[h].nth,
                    resp |-> IF OverLimit(c)
                             THEN [status |-> 429,
                                   fields |-> {"detail", "Retry-After"},
                                   retry_after |-> r.res]
                             ELSE [status |-> 200,
                                   fields |-> {"requests_this_minute", "limit",
                                               "remaining", "resets_in"},
                                   requests_this_minute |-> c,
                                   limit |-> RATE_LIMIT,
                                   remaining |-> RATE_LIMIT - c,
                                   resets_in |-> r.res]]
        /\ UNCHANGED <<now, db, returned, admitted, issued, serial, login_attempts, sessions_db>>

\* SpecRate: concurrent requests of one client within one minute.
NextRate ==
    \/ \E h \in Handlers, ip \in ClientIps : RateStart(h, ip)
    \/ \E h \in Handlers : RateIncr(h)
    \/ \E h \in Handlers : RateExpire(h)
    \/ \E h \in Handlers : RateRespond(h)

SpecRate == InitConcurrent /\ [][NextRate]_vars

\* SpecWindow: concurrent requests of one client while the minutes pass.
NextWindow == NextRate \/ Tick

SpecWindow == InitConcurrent /\ [][NextWindow]_vars

\* SpecWindowSeq: the same, one request at a time.
SpecWindowSeq == InitSerial /\ [][NextWindow]_vars

----------------------------------------------------------------------------
(* The product handlers.  One step per database round trip and per Redis   *)
(* command; a handler's thread may be preempted between any two.  A        *)
(* database call may raise (ok = FALSE); the exception leaves the handler. *)
(* A response is recorded in last and frees the slot.                      *)

\* ProductResponse.from_orm(product).dict()
product_data(id, row) == PyDict(ProductBody(id, row.ver))

\* The primary key SQLite gives a new row: one more than the largest in use.
NewId(d) ==
    LET used == {i \in ProductIds : d[i] # NoRow}
    IN  IF used = {} THEN 1 ELSE (CHOOSE i \in used : \A j \in used : j <= i) + 1

PageOf(q) == IF q = "all:page1:limit10" THEN 1 ELSE 2

\* The result dict of the list query: the page's rows and the total count.
ListResult(d, q) ==
    LET rows == {i \in ProductIds : d[i] # NoRow}
    IN  PyDict(ListBody(IF PageOf(q) = 1
                        THEN {ProductBody(i, d[i].ver) : i \in rows} ELSE {},
                        Cardinality(rows), PageOf(q)))

\* A loader that caches an empty result before it reports the failure.
loader_failed_cached(s, t, key, status) ==
    [status |-> status, store |-> cache_set(s, t, key, PyDict(EmptyBody), ProductTtl).store]

\* The query raised, or found no row (raise HTTPException(404)): the handler
\* ends there and the cache is as it was.
loader_failed(s, t, key, status) == [status |-> status, store |-> s]

\* A write-through that fills the cache before the commit is known to succeed.
writer_failed_cached(s, t, key, value) ==
    [status |-> 500, store |-> cache_set(s, t, key, value, ProductTtl).store]

\* db.commit() raised: the exception leaves the handler before cache_set.
writer_failed(s, t, key, value) == [status |-> 500, store |-> s]

\* ---- get_product_cache_aside(product_id)

\* A cache-aside read with single-flight protection: a request for a key that
\* another request is already loading is held back until that load is stored.
CaGetSingleFlight(h, id) ==
    LET key == ProductKey(id)
        r == cache_get(store, now, key)
    IN  /\ CanStart(h)
        /\ \A g \in Handlers \ {h} :
              ~(req[g].pc \in {"ca_load", "ca_set"} /\ req[g].id = id)
        /\ store' = r.store
        /\ IF Truthy(r.res)
           THEN /\ req' = req
                /\ last' = [op |-> "cache_aside", id |-> id, status |-> 200,
                            hit |-> TRUE, product |-> r.res, loads |-> 0]
           ELSE /\ req' = [req EXCEPT ![h] = [pc |-> "ca_load", id |-> id]]
                /\ last' = Step
        /\ UNCHANGED <<now, db, returned, admitted, issued, serial, login_attempts, sessions_db>>

CaGet(h, id) ==
    LET key == ProductKey(id)
        r == cache_get(store, now, key)
    IN  /\ CanStart(h)
        /\ store' = r.store
        /\ IF Truthy(r.res)
           THEN /\ req' = req
                /\ last' = [op |-> "cache_aside", id |-> id, status |-> 200,
                            hit |-> TRUE, product |-> r.res, loads |-> 0]
           ELSE /\ req' = [req EXCEPT ![h] = [pc |-> "ca_load", id |-> id]]
                /\ last' = Step
        /\ UNCHANGED <<now, db, returned, admitted, issued, serial, login_attempts, sessions_db>>

CaLoad(h, ok) ==
    LET id == req[h].id
        key == ProductKey(id)
        f == loader_failed(store, now, key, IF ok THEN 404 ELSE 500)
    IN  /\ req[h].pc = "ca_load"
        /\ IF ok /\ db[id] # NoRow
           THEN /\ req' = [req EXCEPT ![h] =
                             [pc |-> "ca_set", id |-> id, data |-> product_data(id, db[id])]]
                /\ last' = Step
                /\ store' = store
           ELSE /\ req' = [req EXCEPT ![h] = Idle]
                /\ last' = [op |-> "cache_aside", id |-> id, status |-> f.status,
                            hit |-> FALSE, product |-> None, loads |-> 1]
                /\ store' = f.store
        /\ UNCHANGED <<now, db, returned, admitted, issued, serial, login_attempts, sessions_db>>

CaSet(h) ==
    LET id == req[h].id
        r == cache_set(store, now, ProductKey(id), req[h].data, ProductTtl)
    IN  /\ req[h].pc = "ca_set"
        /\ store' = r.store
        /\ req' = [req EXCEPT ![h] = Idle]
        /\ last' = [op |-> "cache_aside", id |-> id, status |-> 200,
                    hit |-> FALSE, product |-> req[h].data, loads |-> 1]
        /\ UNCHANGED <<now, db, returned, admitted, issued, serial, login_attempts, sessions_db>>

\* ---- create_product_write_through(product)

CrCommit(h, v, ok) ==
    LET id == NewId(db)
        f == writer_failed(store, now, ProductKey(id), product_data(id, Row(v)))
    IN  /\ CanStart(h)
        /\ id \in ProductIds
        /\ IF ok
           THEN /\ db' = [db EXCEPT ![id] = Row(v)]
                /\ req' = [req EXCEPT ![h] = [pc |-> "cr_refresh", id |-> id]]
                /\ last' = Step
                /\ store' = store
           ELSE /\ UNCHANGED <<db, req>>
                /\ last' = [op |-> "create", id |-> id, status |-> f.status,
                            stage |-> "commit", product |-> product_data(id, Row(v))]
                /\ store' = f.store
        /\ UNCHANGED <<now, returned, admitted, issued, serial, login_attempts, sessions_db>>

\* db.refresh(row): reads the row back; raises when the row is gone.
Refresh(h, nextpc, op) ==
    LET id == req[h].id
    IN  /\ IF db[id] # NoRow
           THEN /\ req' = [req EXCEPT ![h] =
                             [pc |-> nextpc, id |-> id, data |-> product_data(id, db[id])]]
                /\ last' = Step
           ELSE /\ req' = [req EXCEPT ![h] = Idle]
                /\ last' = [op |-> op, id |-> id, status |-> 500,
                            stage |-> "refresh", product |-> None]
        /\ UNCHANGED <<store, now, db, returned, admitted, issued, serial, login_attempts, sessions_db>>

CrRefresh(h) == req[h].pc = "cr_refresh" /\ Refresh(h, "cr_set", "create")

CrSet(h) ==
    LET r == cache_set(store, now, ProductKey(req[h].id), req[h].data, ProductTtl)
    IN  /\ req[h].pc = "cr_set"
        /\ store' = r.store
        /\ req' = [req EXCEPT ![h].pc = "cr_scan"]
        /\ last' = Step
        /\ UNCHANGED <<now, db, returned, admitted, issued, serial, login_attempts, sessions_db>>

Created(h, scanned) ==
    [op |-> "create", id |-> req[h].id, status |-> 201, stage |-> "done",
     product |-> req[h].data, scanned |-> scanned]

\* cache_delete_pattern("products:list:*"): the scan ...
CrScan(h) ==
    LET sc == RedisScan(store, now, ListPattern)
    IN  /\ req[h].pc = "cr_scan"
        /\ store' = sc.store
        /\ IF sc.res = {}
           THEN req' = [req EXCEPT ![h] = Idle] /\ last' = Created(h, {})
           ELSE /\ req' = [req EXCEPT ![h] =
                             [pc |-> "cr_del", id |-> req[h].id, data |-> req[h].data,
                              pend |-> sc.res, scanned |-> sc.res]]
                /\ last' = Step
        /\ UNCHANGED <<now, db, returned, admitted, issued, serial, login_attempts, sessions_db>>

\* ... and one delete per key the scan yielded.
CrDel(h) ==
    /\ req[h].pc = "cr_del"
    /\ \E k \in req[h].pend :
          /\ store' = RedisDelete(store, now, k).store
          /\ IF req[h].pend = {k}
             THEN req' = [req EXCEPT ![h] = Idle] /\ last' = Created(h, req[h].scanned)
             ELSE req' = [req EXCEPT ![h].pend = @ \ {k}] /\ last' = Step
    /\ UNCHANGED <<now, db, returned, admitted, issued, serial, login_attempts, sessions_db>>

\* ---- update_product_write_through(product_id, updates)

UpQuery(h, id, v, ok) ==
    /\ CanStart(h)
    /\ IF ok /\ db[id] # NoRow
       THEN /\ req' = [req EXCEPT ![h] = [pc |-> "up_commit", id |-> id, ver |-> v]]
            /\ last' = Step
       ELSE /\ req' = req
            /\ last' = [op |-> "update", id |-> id, status |-> IF ok THEN 404 ELSE 500,
                        stage |-> "query", product |-> None]
    /\ UNCHANGED <<store, now, db, returned, admitted, issued, serial, login_attempts, sessions_db>>

UpCommit(h, ok) ==
    LET id == req[h].id
        v == req[h].ver
        f == writer_failed(store, now, ProductKey(id), product_data(id, Row(v)))
    IN  /\ req[h].pc = "up_commit"
        /\ IF ok /\ db[id] # NoRow
           THEN /\ db' = [db EXCEPT ![id] = Row(v)]
                /\ req' = [req EXCEPT ![h] = [pc |-> "up_refresh", id |-> id]]
                /\ last' = Step
                /\ store' = store
           ELSE /\ UNCHANGED db
                /\ req' = [req EXCEPT ![h] = Idle]
                /\ last' = [op |-> "update", id |-> id, status |-> f.status,
                            stage |-> "commit", product |-> product_data(id, Row(v))]
                /\ store' = f.store
        /\ UNCHANGED <<now, returned, admitted, issued, serial, login_attempts, sessions_db>>

UpRefresh(h) == req[h].pc = "up_refresh" /\ Refresh(h, "up_set", "update")

UpSet(h) ==
    LET r == cache_set(store, now, ProductKey(req[h].id), req[h].data, ProductTtl)
    IN  /\ req[h].pc = "up_set"
        /\ store' = r.store
        /\ req' = [req EXCEPT ![h] = Idle]
        /\ last' = [op |-> "update", id |-> req[h].id, status |-> 200,
                    stage |-> "done", product |-> req[h].data]
        /\ UNCHANGED <<now, db, returned, admitted, issued, serial, login_attempts, sessions_db>>

\* ---- get_products_with_cache(category, page, limit)

LsGet(h, q) ==
    LET r == cache_get(store, now, ListKey(q))
    IN  /\ CanStart(h)
        /\ store' = r.store
        /\ IF Truthy(r.res)
           THEN /\ req' = req
                /\ last' = [op |-> "list", q |-> q, status |-> 200,
                            hit |-> TRUE, result |-> r.res]
           ELSE /\ req' = [req EXCEPT ![h] = [pc |-> "ls_query", q |-> q]]
                /\ last' = Step
        /\ UNCHANGED <<now, db, returned, admitted, issued, serial, login_attempts, sessions_db>>

LsQuery(h, ok) ==
    /\ req[h].pc = "ls_query"
    /\ IF ok
       THEN /\ req' = [req EXCEPT ![h] =
                         [pc |-> "ls_set", q |-> req[h].q, data |-> ListResult(db, req[h].q)]]
            /\ last' = Step
       ELSE /\ req' = [req EXCEPT ![h] = Idle]
            /\ last' = [op |-> "list", q |-> req[h].q, status |-> 500,
                        hit |-> FALSE, result |-> None]
    /\ UNCHANGED <<store, now, db, returned, admitted, issued, serial, login_attempts, sessions_db>>

LsSet(h) ==
    LET r == cache_set(store, now, ListKey(req[h].q), req[h].data, ListTtl)
    IN  /\ req[h].pc = "ls_set"
        /\ store' = r.store
        /\ req' = [req EXCEPT ![h] = Idle]
        /\ last' = [op |-> "list", q |-> req[h].q, status |-> 200,
                    hit |-> FALSE, result |-> req[h].data]
        /\ UNCHANGED <<now, db, returned, admitted, issued, serial, login_attempts, sessions_db>>

AsideStep(h) ==
    \/ \E id \in ProductIds : CaGet(h, id)
    \/ \E ok \in BOOLEAN : CaLoad(h, ok)
    \/ CaSet(h)

CreateStep(h) ==
    \/ \E v \in Vers, ok \in BOOLEAN : CrCommit(h, v, ok)
    \/ CrRefresh(h)
    \/ CrSet(h)
    \/ CrScan(h)
    \/ CrDel(h)

UpdateStep(h) ==
    \/ \E id \in ProductIds, v \in Vers, ok \in BOOLEAN : UpQuery(h, id, v, ok)
    \/ \E ok \in BOOLEAN : UpCommit(h, ok)
    \/ UpRefresh(h)
    \/ UpSet(h)

ListStep(h) ==
    \/ \E q \in ListQueries : LsGet(h, q)
    \/ \E ok \in BOOLEAN : LsQuery(h, ok)
    \/ LsSet(h)

ProductStep(h) == AsideStep(h) \/ CreateStep(h) \/ UpdateStep(h) \/ ListStep(h)

\* Spec: the product handlers running concurrently on the server's threads.
Next == \E h \in Handlers : ProductStep(h)

Spec == InitConcurrent /\ [][Next]_vars

\* SpecSeq: the product handlers serving one request at a time.
SpecSeq == InitSerial /\ [][Next]_vars

\* SpecAside: product reads through the cache and product updates, one request
\* at a time, while time passes and entries expire.
NextAside ==
    \/ \E h \in Handlers : AsideStep(h) \/ UpdateStep(h)
    \/ Tick

SpecAside == InitSerial /\ [][NextAside]_vars

\* SpecWrite: concurrent write-through creates and updates (and list reads,
\* which fill the keys a create invalidates); nothing else writes a product key.
NextWrite == \E h \in Handlers : CreateStep(h) \/ UpdateStep(h) \/ ListStep(h)

SpecWrite == InitConcurrent /\ [][NextWrite]_vars

\* SpecRace: concurrent product reads through the cache and write-through
\* updates of the same products.
NextRace == \E h \in Handlers : AsideStep(h) \/ UpdateStep(h)

SpecRace == InitConcurrent /\ [][NextRace]_vars

----------------------------------------------------------------------------
(* delete_product_with_cache_invalidation(product_id): delete the row, then *)
(* delete the product's key and every cached list page.                     *)

ListKeys == {ListKey(q) : q \in ListQueries}

DlQuery(h, id, ok) ==
    /\ CanStart(h)
    /\ IF ok /\ db[id] # NoRow
       THEN /\ req' = [req EXCEPT ![h] = [pc |-> "dl_commit", id |-> id]]
            /\ last' = Step
       ELSE /\ req' = req
            /\ last' = [op |-> "delete_product", id |-> id,
                        status |-> IF ok THEN 404 ELSE 500]
    /\ UNCHANGED <<store, now, db, returned, admitted, issued, serial, login_attempts, sessions_db>>

\* db.delete(product); db.commit()
DlCommit(h, ok) ==
    LET id == req[h].id
    IN  /\ req[h].pc = "dl_commit"
        /\ IF ok
           THEN /\ db' = [db EXCEPT ![id] = NoRow]
                /\ req' = [req EXCEPT ![h] = [pc |-> "dl_cache", id |-> id]]
                /\ last' = Step
           ELSE /\ UNCHANGED db
                /\ req' = [req EXCEPT ![h] = Idle]
                /\ last' = [op |-> "delete_product", id |-> id, status |-> 500]
        /\ UNCHANGED <<store, now, returned, admitted, issued, serial, login_attempts, sessions_db>>

\* cache_delete(f"product:{product_id}"); invalidated.append(...): the key is
\* listed whatever the delete returned.
DlCacheDelete(h) ==
    LET key == ProductKey(req[h].id)
        r == cache_delete(store, now, key)
    IN  /\ req[h].pc = "dl_cache"
        /\ store' = r.store
        /\ req' = [req EXCEPT ![h] =
                     [pc |-> "dl_scan", id |-> req[h].id, invalidated |-> {key},
                      removed |-> IF RedisDelete(store, now, key).res = 1
                                  THEN {key} ELSE {}]]
        /\ last' = Step
        /\ UNCHANGED <<now, db, returned, admitted, issued, serial, login_attempts, sessions_db>>

\* The response: the keys listed as invalidated.  count is computed by the
\* handler and is not part of the response; removed, live_at_scan and
\* stale_at_scan record what the key space held, for the properties.
Deleted(r) ==
    [op |-> "delete_product", id |-> r.id, status |-> 200,
     fields |-> {"message", "cache_invalidated", "note"},
     cache_invalidated |-> r.invalidated, count |-> r.count,
     removed |-> r.removed, live_at_scan |-> r.live_at_scan,
     stale_at_scan |-> r.stale_at_scan]

\* count = 0; for key in redis_client.scan_iter("products:list:*"): the scan ...
DlScan(h) ==
    LET sc == RedisScan(store, now, ListPattern)
        r == [pc |-> "dl_del", id |-> req[h].id, invalidated |-> req[h].invalidated,
              removed |-> req[h].removed, count |-> 0, pend |-> sc.res,
              live_at_scan |-> {k \in ListKeys : Live(store, now, k)},
              stale_at_scan |-> {k \in ListKeys : Expired(store, now, k)}]
    IN  /\ req[h].pc = "dl_scan"
        /\ store' = sc.store
        /\ IF sc.res = {}
           THEN req' = [req EXCEPT ![h] = Idle] /\ last' = Deleted(r)
           ELSE req' = [req EXCEPT ![h] = r] /\ last' = Step
        /\ UNCHANGED <<now, db, returned, admitted, issued, serial, login_attempts, sessions_db>>

\* ... and the loop body for one key: delete(key); invalidated.append(key);
\* count += 1
DlDel(h) ==
    /\ req[h].pc = "dl_del"
    /\ \E k \in req[h].pend :
          LET d == RedisDelete(store, now, k)
              r == [req[h] EXCEPT !.pend = @ \ {k},
                                  !.invalidated = @ \cup {k},
                                  !.count = @ + 1,
                                  !.removed = IF d.res = 1 THEN @ \cup {k} ELSE @]
          IN  /\ store' = d.store
              /\ IF r.pend = {}
                 THEN req' = [req EXCEPT ![h] = Idle] /\ last' = Deleted(r)
                 ELSE req' = [req EXCEPT ![h] = r] /\ last' = Step
    /\ UNCHANGED <<now, db, returned, admitted, issued, serial, login_attempts, sessions_db>>

DeleteStep(h) ==
    \/ \E id \in ProductIds, ok \in BOOLEAN : DlQuery(h, id, ok)
    \/ \E ok \in BOOLEAN : DlCommit(h, ok)
    \/ DlCacheDelete(h)
    \/ DlScan(h)
    \/ DlDel(h)

\* SpecInval: product and list reads fill the cache and deletes invalidate it,
\* one request at a time, while time passes and entries expire.
NextInval ==
    \/ \E h \in Handlers : AsideStep(h) \/ ListStep(h) \/ DeleteStep(h)
    \/ Tick

SpecInval == InitSerial /\ [][NextInval]_vars

\* SpecInvalRace: the same requests running concurrently.
SpecInvalRace == InitConcurrent /\ [][NextInval]_vars

----------------------------------------------------------------------------
(* Sessions kept in Redis: login_with_session, get_session_user and        *)
(* logout_session.  A token is the SHA-256 of the user name and the time   *)
(* of the login; logins get distinct tokens, numbered in the order issued. *)

Tokens == 1..MaxSessions

\* The accounts that log in; "alice" stands for the two accounts of the code,
\* which differ only in the user_id and role stored with the session.
Usernames == {"alice"}

SessionKey(tok) == <<"session", ":", ToString(tok)>>

UserIdOf(username) == IF username = "alice" THEN 1 ELSE 99

RoleOf(username) == IF username = "alice" THEN "user" ELSE "admin"

session_data(username) ==
    PyDict([kind |-> "session", user_id |-> UserIdOf(username),
            username |-> username, role |-> RoleOf(username)])

\* login_with_session(username, password): wrong credentials are refused
\* (valid = FALSE); otherwise the session is stored under a new token.
Login(h, username, valid) ==
    LET tok == Cardinality(DOMAIN issued) + 1
        r == RedisSetex(store, now, SessionKey(tok), SessionTtl,
                        json_dumps(session_data(username)))
    IN  /\ CanStart(h)
        /\ IF valid
           THEN /\ tok \in Tokens
                /\ store' = r.store
                /\ issued' = Put(issued, tok, [at |-> now, out |-> FALSE])
                /\ last' = [op |-> "login", status |-> 200, session_token |-> tok]
           ELSE /\ UNCHANGED <<store, issued>>
                /\ last' = [op |-> "login", status |-> 401, session_token |-> 0]
        /\ UNCHANGED <<now, db, req, returned, admitted, serial, login_attempts, sessions_db>>

\* get_session_user(session_token): the lookup ...
MeGet(h, tok) ==
    LET r == RedisGet(store, now, SessionKey(tok))
    IN  /\ CanStart(h)
        /\ store' = r.store
        /\ IF Truthy(r.res)
           THEN /\ req' = [req EXCEPT ![h] =
                             [pc |-> "me_ttl", tok |-> tok, user |-> json_loads(r.res)]]
                /\ last' = Step
           ELSE /\ req' = req
                /\ last' = [op |-> "me", session_token |-> tok, status |-> 401]
        /\ UNCHANGED <<now, db, returned, admitted, issued, serial, login_attempts, sessions_db>>

\* ... and ttl = redis_client.ttl(key) for the response.
MeTtl(h) ==
    LET r == RedisTtl(store, now, SessionKey(req[h].tok))
    IN  /\ req[h].pc = "me_ttl"
        /\ store' = r.store
        /\ req' = [req EXCEPT ![h] = Idle]
        /\ last' = [op |-> "me", session_token |-> req[h].tok, status |-> 200,
                    user |-> req[h].user, session_expires_in |-> r.res]
        /\ UNCHANGED <<now, db, returned, admitted, issued, serial, login_attempts, sessions_db>>

\* logout_session(session_token): deleted = redis_client.delete(key);
\* 404 if not deleted.
Logout(h, tok) ==
    LET r == RedisDelete(store, now, SessionKey(tok))
    IN  /\ CanStart(h)
        /\ store' = r.store
        /\ issued' = IF r.res # 0 /\ tok \in DOMAIN issued
                     THEN [issued EXCEPT ![tok].out = TRUE] ELSE issued
        /\ last' = [op |-> "logout", session_token |-> tok, deleted |-> r.res,
                    status |-> IF r.res = 0 THEN 404 ELSE 200]
        /\ UNCHANGED <<now, db, req, returned, admitted, serial, login_attempts, sessions_db>>

SessionStep(h) ==
    \/ \E username \in Usernames, valid \in BOOLEAN : Login(h, username, valid)
    \/ \E tok \in Tokens : MeGet(h, tok)
    \/ MeTtl(h)
    \/ \E tok \in Tokens : Logout(h, tok)

\* SpecSession: concurrent session requests while time passes.
NextSession ==
    \/ \E h \in Handlers : SessionStep(h)
    \/ Tick

SpecSession == InitConcurrent /\ [][NextSession]_vars

----------------------------------------------------------------------------
(* login_stateful of authentication_complete.py: the failed-login lockout.  *)
(* login_attempts and sessions_db are module-level dicts shared by the      *)
(* handler threads; one step per statement that reads or writes them.  A    *)
(* session id is a fresh random token; they are numbered in the order made. *)

\* if attempts["count"] >= 5 / if login_attempts[client_ip]["count"] >= 5
LOCKOUT_AFTER == 5

NoAttempts == [count |-> 0, lockout_until |-> 0]

LoginPcs == {"lg_auth", "lg_track", "lg_read", "lg_write", "lg_lock",
             "lg_reset", "lg_session"}

\* The requests in progress of one client with (valid) or without valid
\* credentials.
InFlight(ip, valid) ==
    Cardinality({g \in Handlers : /\ req[g].pc \in LoginPcs
                                  /\ req[g].ip = ip
                                  /\ req[g].valid = valid})

\* if client_ip in login_attempts: attempts["count"] >= 5 and
\* time.time() < attempts["lockout_until"]
LockedOut(la, t, ip) ==
    /\ ip \in DOMAIN la
    /\ la[ip].count >= LOCKOUT_AFTER
    /\ t < la[ip].lockout_until

\* A request arrives with credentials that are valid or not; the rate limiting
\* check answers 429 at once when the client is locked out.
LgCheck(h, ip, valid) ==
    /\ CanStart(h)
    /\ IF valid
       THEN Cardinality(sessions_db) + InFlight(ip, TRUE) < MaxSessions
       ELSE (IF ip \in DOMAIN login_attempts THEN login_attempts[ip].count ELSE 0)
                + InFlight(ip, FALSE) < LOCKOUT_AFTER + MaxOver
    /\ IF LockedOut(login_attempts, now, ip)
       THEN /\ req' = req
            /\ last' = [op |-> "login_stateful", ip |-> ip, status |-> 429,
                        valid |-> valid, session_id |-> 0]
       ELSE /\ req' = [req EXCEPT ![h] = [pc |-> "lg_auth", ip |-> ip, valid |-> valid]]
            /\ last' = Step
    /\ UNCHANGED <<store, now, db, returned, admitted, issued, serial,
                   login_attempts, sessions_db>>

\* user = authenticate_user(credentials.username, credentials.password)
LgAuth(h) ==
    /\ req[h].pc = "lg_auth"
    /\ req' = [req EXCEPT ![h].pc = IF req[h].valid THEN "lg_reset" ELSE "lg_track"]
    /\ last' = Step
    /\ UNCHANGED <<store, now, db, returned, admitted, issued, serial,
                   login_attempts, sessions_db>>

\* if client_ip not in login_attempts: login_attempts[client_ip] = {...}
LgTrack(h) ==
    /\ req[h].pc = "lg_track"
    /\ login_attempts' = IF req[h].ip \in DOMAIN login_attempts THEN login_attempts
                         ELSE Put(login_attempts, req[h].ip, NoAttempts)
    /\ req' = [req EXCEPT ![h].pc = "lg_read"]
    /\ last' = Step
    /\ UNCHANGED <<store, now, db, returned, admitted, issued, serial, sessions_db>>

\* login_attempts[client_ip]["count"] += 1: the read ...
LgRead(h) ==
    /\ req[h].pc = "lg_read"
    /\ req' = [req EXCEPT ![h] = [pc |-> "lg_write", ip |-> req[h].ip,
                                  valid |-> req[h].valid,
                                  count |-> login_attempts[req[h].ip].count]]
    /\ last' = Step
    /\ UNCHANGED <<store, now, db, returned, admitted, issued, serial,
                   login_attempts, sessions_db>>

\* ... and the write of the count read plus one.
LgWrite(h) ==
    /\ req[h].pc = "lg_write"
    /\ login_attempts' = [login_attempts EXCEPT ![req[h].ip].count = req[h].count + 1]
    /\ req' = [req EXCEPT ![h] = [pc |-> "lg_lock", ip |-> req[h].ip,
                                  valid |-> req[h].valid]]
    /\ last' = Step
    /\ UNCHANGED <<store, now, db, returned, admitted, issued, serial, sessions_db>>

\* if count >= 5: lockout_until = time.time() + 300; raise HTTPException(401)
LgLock(h) ==
    LET ip == req[h].ip
    IN  /\ req[h].pc = "lg_lock"
        /\ login_attempts' =
              IF login_attempts[ip].count >= LOCKOUT_AFTER
              THEN [login_attempts EXCEPT ![ip].lockout_until = now + LockoutTicks]
              ELSE login_attempts
        /\ req' = [req EXCEPT ![h] = Idle]
        /\ last' = [op |-> "login_stateful", ip |-> ip, status |-> 401,
                    valid |-> FALSE, session_id |-> 0]
        /\ UNCHANGED <<store, now, db, returned, admitted, issued, serial, sessions_db>>

\* Success: if client_ip in login_attempts: login_attempts[client_ip] = {0, 0}
LgReset(h) ==
    LET ip == req[h].ip
    IN  /\ req[h].pc = "lg_reset"
        /\ login_attempts' = IF ip \in DOMAIN login_attempts
                             THEN [login_attempts EXCEPT ![ip] = NoAttempts]
                             ELSE login_attempts
        /\ req' = [req EXCEPT ![h].pc = "lg_session"]
        /\ last' = Step
        /\ UNCHANGED <<store, now, db, returned, admitted, issued, serial, sessions_db>>

\* sessions_db[session_id] = {...}; the response carries the session cookie.
LgSession(h) ==
    LET session_id == Cardinality(sessions_db) + 1
    IN  /\ req[h].pc = "lg_session"
        /\ sessions_db' = sessions_db \cup {session_id}
        /\ req' = [req EXCEPT ![h] = Idle]
        /\ last' = [op |-> "login_stateful", ip |-> req[h].ip, status |-> 200,
                    valid |-> TRUE, session_id |-> session_id]
        /\ UNCHANGED <<store, now, db, returned, admitted, issued, serial,
                       login_attempts>>

StatefulLoginStep(h) ==
    \/ \E ip \in ClientIps, valid \in BOOLEAN : LgCheck(h, ip, valid)
    \/ LgAuth(h)
    \/ LgTrack(h)
    \/ LgRead(h)
    \/ LgWrite(h)
    \/ LgLock(h)
    \/ LgReset(h)
    \/ LgSession(h)

NextLogin ==
    \/ \E h \in Handlers : StatefulLoginStep(h)
    \/ Tick

\* SpecLogin: concurrent stateful logins of one client while time passes.
SpecLogin == InitConcurrent /\ [][NextLogin]_vars

\* SpecLoginSeq: the same, one request at a time.
SpecLoginSeq == InitSerial /\ [][NextLogin]_vars

----------------------------------------------------------------------------
(* SpecCommands: the Redis commands the handlers issue on keys that expire, *)
(* one command at a time: SETEX, DEL and TTL on a session key, INCR, EXPIRE *)
(* and TTL on a rate counter.  Each command is recorded in last with what   *)
(* the key space held for the key when it was issued.                       *)

CmdSessionKey == SessionKey(1)

CmdRateKey == RateKey("ip1", 0)

Command(op, k, r) ==
    /\ store' = r.store
    /\ last' = [op |-> op, key |-> k, res |-> r.res, pre |-> PreOf(store, now, k)]
    /\ UNCHANGED <<now, db, req, returned, admitted, issued, serial, login_attempts, sessions_db>>

\* redis_client.setex(f"session:{session_token}", 1800, json.dumps(session_data))
CmdSetex ==
    Command("setex", CmdSessionKey,
            RedisSetex(store, now, CmdSessionKey, SessionTtl,
                       json_dumps(session_data("alice"))))

\* deleted = redis_client.delete(f"session:{session_token}")
CmdDelete == Command("delete", CmdSessionKey, RedisDelete(store, now, CmdSessionKey))

\* request_count = redis_client.incr(rate_key)
CmdIncr ==
    /\ CounterOf(store, now, CmdRateKey) < RATE_LIMIT + MaxOver
    /\ Command("incr", CmdRateKey, RedisIncr(store, now, CmdRateKey))

\* redis_client.expire(rate_key, 60)
CmdExpire == Command("expire", CmdRateKey, RedisExpire(store, now, CmdRateKey, RateTtl))

\* ttl = redis_client.ttl(key)
CmdTtl(k) == Command("ttl", k, RedisTtl(store, now, k))

NextCommands ==
    \/ CmdSetex
    \/ CmdDelete
    \/ CmdIncr
    \/ CmdExpire
    \/ \E k \in {CmdSessionKey, CmdRateKey} : CmdTtl(k)
    \/ Tick

SpecCommands == InitSerial /\ [][NextCommands]_vars

----------------------------------------------------------------------------
(* Properties of the store operations, checked under SpecStore.  A step of *)
(* SpecStore is identified by the call it records in last'.                *)

\* C6: lazy expiry.  A get of a key whose expiry time has been reached
\* (now >= expires_at) is a miss although the entry is still in the key space,
\* and that miss removes the entry; a get that returns a value returns the
\* value of an entry that has not expired.
C6_LazyExpiry ==
    [][ last'.op = "get" =>
          LET k == last'.key
          IN  /\ Expired(store, now, k) => (last'.res = None /\ k \notin DOMAIN store')
              /\ last'.res # None =>
                    /\ Live(store, now, k)
                    /\ last'.res = json_loads(store[k].val) ]_vars

\* A get has just missed on an entry that was present but expired.
C6_Witness ==
    /\ last.op = "get"
    /\ last.pre = "expired"
    /\ last.res = None
    /\ last.key \notin DOMAIN store

C10_Named(p) ==
    CASE p = ListPattern -> {ListKey(q) : q \in ListQueries}
      [] p = <<"*">> -> StoreKeys
      [] p = <<"product", "*">> -> StoreKeys
      [] p = ProductKey(1) -> {ProductKey(1)}

\* C10: delete_pattern(pattern) removes exactly the unexpired keys the pattern
\* names, and leaves every key it does not name as it was: an existing one
\* keeps its value and expiry, and none appears.
C10_DeletePatternFrame ==
    [][ last'.op = "delete_pattern" =>
          LET named == C10_Named(last'.pattern)
          IN  /\ last'.matched = {k \in named : Live(store, now, k)}
              /\ \A k \in StoreKeys :
                    /\ k \in named => k \notin DOMAIN store'
                    /\ (k \notin named /\ Live(store, now, k)) =>
                          (k \in DOMAIN store' /\ store'[k] = store[k])
                    /\ (k \notin named /\ ~Live(store, now, k)) =>
                          ~Live(store', now', k) ]_vars

\* delete_pattern("products:list:*") has just removed both list keys and
\* "product:1" is still cached.
C10_Witness ==
    /\ last.op = "delete_pattern"
    /\ last.pattern = ListPattern
    /\ Cardinality(last.matched) = 2
    /\ Live(store, now, ProductKey(1))
    /\ \A q \in ListQueries : ListKey(q) \notin DOMAIN store

\* C15: set on a key that exists replaces the value and the expiry
\* unconditionally: the entry is the new value with expires_at = now + ttl of
\* this set, and a get at once returns the value of this set.  An entry
\* changes only by a set of its key, so a get returns the value of the last
\* set applied.
C15_LastWriterWins ==
    [][ /\ (last'.op = "set" /\ last'.ttl > 0) =>
              /\ last'.key \in DOMAIN store'
              /\ store'[last'.key].val.json = last'.value.body
              /\ store'[last'.key].exp = now + last'.ttl
        /\ \A k \in DOMAIN store \cap DOMAIN store' :
              store'[k] # store[k] => (last'.op = "set" /\ last'.key = k)
        /\ (last'.op = "get" /\ last'.res # None) =>
              last'.res.body = store[last'.key].val.json ]_vars

\* After time has passed, a set with ttl 1 of the empty dict has just replaced
\* an unexpired entry of its key.
C15_Witness ==
    /\ last.op = "set"
    /\ last.pre = "live"
    /\ last.ttl = 1
    /\ now > 0
    /\ last.value = PyDict(EmptyBody)
    /\ store[last.key] = [val |-> json_dumps(PyDict(EmptyBody)), exp |-> now + 1]

\* C16: set with ttl <= 0 is answered with an error (the client raises
\* ResponseError for the server's "invalid expire time"), the ttl is not
\* replaced by another, and the key space is as it was: an entry of the key
\* keeps its value and expiry.
C16_InvalidTtlRejected ==
    [][ (last'.op = "set" /\ last'.ttl <= 0) =>
            /\ last'.res = Raise("ResponseError")
            /\ store' = store ]_vars

\* A set with ttl 0 on a key that holds an unexpired entry has just raised.
C16_Witness ==
    /\ last.op = "set"
    /\ last.ttl = 0
    /\ last.pre = "live"
    /\ last.res = Raise("ResponseError")
    /\ Live(store, now, last.key)

\* C19: a get that hits changes nothing: the keys, every value and every
\* expiry are the same after the call as before it.
C19_HitHasNoEffect ==
    [][ (last'.op = "get" /\ last'.res # None) => store' = store ]_vars

\* A get has just hit, after time has passed, while an expired entry of
\* another key is still in the key space.
C19_Witness ==
    /\ last.op = "get"
    /\ last.res # None
    /\ now > 0
    /\ \E k \in DOMAIN store : k # last.key /\ Expired(store, now, k)

----------------------------------------------------------------------------
(* Properties of the rate limiter, checked under SpecRate.                 *)

\* C2: no lost updates.  For every counter key that exists, the INCR calls
\* made on it since it was created, whatever their interleaving, returned
\* 1, 2, ..., N in turn, each once, and the counter holds N.
C2_NoLostIncrements ==
    \A k \in DOMAIN returned :
        Live(store, now, k) =>
            /\ store[k].val = IntStr(Len(returned[k]))
            /\ \A i \in 1..Len(returned[k]) : returned[k][i] = i

\* Two requests are in progress at once and both have incremented the counter.
C2_Witness ==
    \E g, h \in Handlers :
        /\ req[g].pc = "rl_expire"
        /\ req[h].pc = "rl_ttl"
        /\ req[g].key = req[h].key
        /\ req[g].request_count = 1
        /\ req[h].request_count = 2
        /\ CounterOf(store, now, req[g].key) = 2

\* C8 as stated: the k-th request of a window is allowed exactly when
\* k <= limit, and a denied request reports remaining = 0.
C8_DeniedReportsZeroRemaining ==
    last.op = "rate" =>
        /\ (last.resp.status = 200) <=> (last.nth <= RATE_LIMIT)
        /\ last.resp.status # 200 =>
              ("remaining" \in last.resp.fields /\ last.resp.remaining = 0)
        /\ "remaining" \in last.resp.fields => last.resp.remaining >= 0

\* C8, amended: the k-th request of a window is allowed exactly when
\* k <= limit; an allowed request reports remaining = limit - k, which is never
\* negative; a denied request is answered 429 with a Retry-After header and
\* reports no remaining count.
C8_AllowWithinLimit ==
    last.op = "rate" =>
        /\ last.request_count = last.nth
        /\ last.resp.status \in {200, 429}
        /\ (last.resp.status = 200) <=> (last.nth <= RATE_LIMIT)
        /\ last.resp.status = 200 =>
              /\ "remaining" \in last.resp.fields
              /\ last.resp.remaining = RATE_LIMIT - last.nth
              /\ last.resp.remaining >= 0
        /\ last.resp.status = 429 =>
              /\ "remaining" \notin last.resp.fields
              /\ "Retry-After" \in last.resp.fields

\* The request after the last allowed one has just been denied.
C8_Witness ==
    /\ last.op = "rate"
    /\ last.nth = RATE_LIMIT + 1
    /\ last.resp.status = 429

----------------------------------------------------------------------------
(* Properties of the write-through handlers.                               *)

WriteOps == {"create", "update"}

\* C1: write-through calls the writer before it touches the cache, and a
\* commit that fails ends the request with an error and leaves the cache as
\* it was: a get of the key returns what it returned before (a miss or the
\* prior value).  Checked under SpecSeq.
C1_FailedWriterLeavesCache ==
    [][ /\ (last'.op \in WriteOps /\ last'.stage = "commit") =>
              /\ last'.status = 500
              /\ store' = store
              /\ db' = db
              /\ \A h \in Handlers : req'[h] = Idle
              /\ cache_get(store', now', ProductKey(last'.id)).res
                    = cache_get(store, now, ProductKey(last'.id)).res
        /\ \A h \in Handlers :
              (req[h].pc \in {"idle", "up_commit"} /\
               req'[h].pc \in {"up_commit", "up_refresh", "cr_refresh"}) =>
                  store' = store
      ]_vars

\* An update has just failed at its commit while the cache holds the prior
\* value of the product, which differs from the value that failed to persist.
C1_Witness ==
    /\ last.op = "update"
    /\ last.stage = "commit"
    /\ last.status = 500
    /\ Live(store, now, ProductKey(last.id))
    /\ cache_get(store, now, ProductKey(last.id)).res # last.product
    /\ cache_get(store, now, ProductKey(last.id)).res = product_data(last.id, db[last.id])

\* C3: once every write-through write has completed, the cached value of each
\* product key equals the row the table holds.  Checked under SpecWrite.
C3_CacheEqualsTableWhenQuiet ==
    (\A h \in Handlers : req[h].pc = "idle") =>
        \A id \in ProductIds :
            Live(store, now, ProductKey(id)) =>
                /\ db[id] # NoRow
                /\ store[ProductKey(id)].val = json_dumps(product_data(id, db[id]))

\* C9: when a create has succeeded, a get of its key returns the product it
\* wrote and no key matching "products:list:*" exists.  Checked under SpecSeq.
C9_WriteAndInvalidate ==
    [][ (last'.op = "create" /\ last'.status = 201) =>
          /\ cache_get(store', now', ProductKey(last'.id)).res = last'.product
          /\ last'.product = product_data(last'.id, db'[last'.id])
          /\ \A k \in DOMAIN store' :
                Live(store', now', k) => ~GlobMatch(ListPattern, k)
          /\ \A q \in ListQueries : ~Live(store', now', ListKey(q)) ]_vars

\* A create has just succeeded after deleting both cached list pages.
C9_Witness ==
    /\ last.op = "create"
    /\ last.status = 201
    /\ last.scanned = {ListKey(q) : q \in ListQueries}
    /\ \A q \in ListQueries : ListKey(q) \notin DOMAIN store
    /\ cache_get(store, now, ProductKey(last.id)).res = last.product

----------------------------------------------------------------------------
(* Properties of the cache-aside read, checked under SpecAside.            *)

\* C4: a cache-aside read that hits returns the cached value and does not
\* query the table; one that misses queries the table once, stores the row
\* under the key with the product ttl and returns it, and a read of the same
\* key made at once is a hit with the same value.  A read misses only when
\* the key does not exist.
C4_CacheAside ==
    [][ /\ (last'.op = "cache_aside" /\ last'.status = 200) =>
              LET key == ProductKey(last'.id)
              IN  IF last'.hit
                  THEN /\ Live(store, now, key)
                       /\ last'.product = json_loads(store[key].val)
                       /\ last'.loads = 0
                       /\ store' = store
                  ELSE /\ last'.loads = 1
                       /\ last'.product = product_data(last'.id, db[last'.id])
                       /\ key \in DOMAIN store'
                       /\ store'[key] = [val |-> json_dumps(last'.product),
                                         exp |-> now + ProductTtl]
                       /\ Truthy(cache_get(store', now', key).res)
                       /\ cache_get(store', now', key).res = last'.product
        /\ \A h \in Handlers :
              (req[h].pc = "idle" /\ req'[h].pc = "ca_load") =>
                  ~Live(store, now, ProductKey(req'[h].id))
      ]_vars

\* After time has passed, a read has just missed, loaded the row and stored it
\* with an expiry of the product ttl from now.
C4_Witness ==
    /\ last.op = "cache_aside"
    /\ last.status = 200
    /\ ~last.hit
    /\ now > 0
    /\ store[ProductKey(last.id)].exp = now + ProductTtl

\* C5: when the table query of a cache-aside read fails (it raises, or finds
\* no row), the request ends with the error after that one query and the
\* cache is as it was: a get of the key is still a miss.
C5_FailedLoaderCachesNothing ==
    [][ (last'.op = "cache_aside" /\ last'.status # 200) =>
          /\ last'.status \in {404, 500}
          /\ last'.loads = 1
          /\ store' = store
          /\ db' = db
          /\ \A h \in Handlers : req'[h] = Idle
          /\ cache_get(store', now', ProductKey(last'.id)).res = None ]_vars

\* The table query of a read has just raised for a product that has a row.
C5_Witness ==
    /\ last.op = "cache_aside"
    /\ last.status = 500
    /\ db[last.id] # NoRow
    /\ ~Live(store, now, ProductKey(last.id))

----------------------------------------------------------------------------
(* Properties of the invalidating delete, checked under SpecInval.         *)

\* C11 as stated: the number of keys the delete reports as invalidated is the
\* number of unexpired entries it removed.
C11_ReportsNumberInvalidated ==
    (last.op = "delete_product" /\ last.status = 200) =>
        Cardinality(last.cache_invalidated) = Cardinality(last.removed)

\* C11 as amended: the handler counts exactly the list keys that were unexpired
\* when it scanned, so an entry whose expiry has passed is never counted, reaped
\* or not; it reports the keys and not the count, and it always lists
\* "product:{id}" besides the keys it scanned.
C11_ScanHonoursExpiry ==
    (last.op = "delete_product" /\ last.status = 200) =>
        /\ last.count = Cardinality(last.live_at_scan)
        /\ last.cache_invalidated = {ProductKey(last.id)} \cup last.live_at_scan
        /\ last.cache_invalidated \cap last.stale_at_scan = {}
        /\ "count" \notin last.fields

\* A delete has just answered after scanning while one list page was cached
\* and unexpired and the other was expired and still in the key space.
C11_Witness ==
    /\ last.op = "delete_product"
    /\ last.status = 200
    /\ last.count = 1
    /\ last.stale_at_scan # {}
    /\ last.live_at_scan # {}

----------------------------------------------------------------------------
(* Properties of the rate counter over time, checked under SpecWindowSeq.  *)

C13_AdmittedInMinuteOf(t) ==
    LET ticks == {u \in 0..MaxTime : u \div MinuteTicks = t \div MinuteTicks}
        f[S \in SUBSET ticks] ==
            IF S = {} THEN 0
            ELSE LET u == CHOOSE x \in S : TRUE IN admitted[u] + f[S \ {u}]
    IN  f[ticks]

C13_WitnessExpired ==
    /\ last.op = "rate"
    /\ last.at < now
    /\ last.request_count = 1
    /\ last.key \in DOMAIN store
    /\ store[last.key].exp = now + RateTtl
    /\ admitted[0] > 0

----------------------------------------------------------------------------
(* The fixed-window bound, checked under SpecWindow.                       *)

\* The requests counted within the limit during the window that starts at
\* tick t: the ticks t, ..., t + MinuteTicks - 1.
C14_AdmittedFrom(t) ==
    LET ticks == {u \in 0..MaxTime : t <= u /\ u < t + MinuteTicks}
        f[S \in SUBSET ticks] ==
            IF S = {} THEN 0
            ELSE LET u == CHOOSE x \in S : TRUE IN admitted[u] + f[S \ {u}]
    IN  f[ticks]

\* C14: within any interval as long as the window, at most twice the limit of
\* one client's requests are allowed.
C14_AtMostTwiceLimit ==
    \A t \in 0..MaxTime : C14_AdmittedFrom(t) <= 2 * RATE_LIMIT

\* A burst across the minute boundary has had exactly twice the limit allowed
\* within one window's length.
C14_TwiceLimitReached ==
    \E t \in 1..MaxTime :
        /\ C14_AdmittedFrom(t) = 2 * RATE_LIMIT
        /\ t \div MinuteTicks # (t + MinuteTicks - 1) \div MinuteTicks

----------------------------------------------------------------------------
(* Properties of the sessions, checked under SpecSession.                  *)

C20_AcceptedOnlyWhileValid ==
    [][ /\ \A h \in Handlers :
              (req[h].pc = "idle" /\ req'[h].pc = "me_ttl") =>
                  LET tok == req'[h].tok
                  IN  /\ tok \in DOMAIN issued
                      /\ ~issued[tok].out
                      /\ issued[tok].at <= now
                      /\ now < issued[tok].at + SessionTtl
        /\ (last'.op = "me" /\ last'.status = 401
              /\ last'.session_token \in DOMAIN issued) =>
              \/ issued[last'.session_token].out
              \/ now >= issued[last'.session_token].at + SessionTtl
        /\ (last'.op = "logout" /\ last'.status = 200) =>
              /\ last'.session_token \in DOMAIN issued
              /\ ~issued[last'.session_token].out ]_vars

\* A request with a logged-out token has just been refused although the
\* session's TTL has not run out.
C20_Witness ==
    /\ last.op = "me"
    /\ last.status = 401
    /\ last.session_token \in DOMAIN issued
    /\ issued[last.session_token].out
    /\ now < issued[last.session_token].at + SessionTtl

\* C18: the remaining TTL a handler reports is never negative: a session that
\* is accepted is reported with the time it has left.
C18_ReportedTtlNotNegative ==
    (last.op = "me" /\ last.status = 200) => last.session_expires_in >= 0

\* The same for the rate limiter: neither resets_in nor Retry-After is negative.
C18_RateTtlNotNegative ==
    last.op = "rate" =>
        IF last.resp.status = 200 THEN last.resp.resets_in >= 0
        ELSE last.resp.retry_after >= 0


----------------------------------------------------------------------------
(* Concurrent readers and writers of the product keys, checked under        *)
(* SpecRace.                                                                *)

\* Handler g is inside its database call: the loader query of a cache-aside
\* read, or the commit or refresh of a write-through update.
C21_InLoaderOrWriter(g) == req[g].pc \in {"ca_load", "up_commit", "up_refresh"}

\* C21: no store lock is held across a loader or writer call.  While one
\* handler is inside its database call, every store operation of another
\* handler can run: an idle handler's cache_get of any key, and the cache_set a
\* handler has reached.
C21_NoLockAcrossLoader ==
    \A g \in Handlers :
        C21_InLoaderOrWriter(g) =>
            \A h \in Handlers \ {g} :
                /\ req[h].pc = "idle" => \A id \in ProductIds : ENABLED CaGet(h, id)
                /\ req[h].pc = "ca_set" => ENABLED CaSet(h)
                /\ req[h].pc = "up_set" => ENABLED UpSet(h)

\* While one handler is still inside its loader, another has missed on the
\* same key, loaded, stored the product and returned.
C21_Witness ==
    \E g \in Handlers :
        /\ req[g].pc = "ca_load"
        /\ last.op = "cache_aside"
        /\ last.id = req[g].id
        /\ last.status = 200
        /\ ~last.hit
        /\ Live(store, now, ProductKey(req[g].id))

\* C22: a cache-aside read interleaved with a write-through update of the
\* same key.  When the read has stored what it loaded and no request is in
\* progress any more, the cached value of the key is the row the table holds:
\* a reader that loaded the old row does not overwrite the newer cached value.
C22_ReaderNeverLeavesStale ==
    [][ (/\ last'.op = "cache_aside"
         /\ last'.status = 200
         /\ ~last'.hit
         /\ \A h \in Handlers : req'[h].pc = "idle") =>
            /\ db'[last'.id] # NoRow
            /\ store'[ProductKey(last'.id)].val =
                  json_dumps(product_data(last'.id, db'[last'.id])) ]_vars

----------------------------------------------------------------------------
(* Updates and the cached list pages, checked under SpecSeq.                *)

\* C23: when an update has succeeded, the product's key holds the updated
\* product, and no cached list page holds the product with other contents
\* than the row now has.
C23_UpdateLeavesNoStaleEntry ==
    [][ (last'.op = "update" /\ last'.status = 200) =>
          /\ cache_get(store', now', ProductKey(last'.id)).res = last'.product
          /\ \A q \in ListQueries :
                Live(store', now', ListKey(q)) =>
                    \A b \in store'[ListKey(q)].val.json.data :
                        b.id = last'.id => b.ver = db'[last'.id].ver ]_vars

----------------------------------------------------------------------------
(* Deletes racing with reads, checked under SpecInvalRace.                  *)

\* C24: when no request is in progress, a product whose row has been deleted
\* has no live entry under its key and is in no live cached list page.
C24_DeletedNeverCached ==
    (\A h \in Handlers : req[h].pc = "idle") =>
        \A id \in ProductIds :
            db[id] = NoRow =>
                /\ ~Live(store, now, ProductKey(id))
                /\ \A q \in ListQueries :
                      Live(store, now, ListKey(q)) =>
                          \A b \in store[ListKey(q)].val.json.data : b.id # id

----------------------------------------------------------------------------
(* The rate counter and its expiry, checked under SpecRate.                 *)

\* C25: every rate counter in the key space has an expiry, in every state the
\* concurrent handlers reach.
C25_CounterAlwaysHasExpiry ==
    \A k \in DOMAIN store : Head(k) = "rate" => store[k].exp # NoExpiry

\* C26: a request that is denied (429) is told a reset time that is positive
\* and no longer than the window.
C26_DeniedResetWithinWindow ==
    (last.op = "rate" /\ last.resp.status = 429) =>
        /\ last.resp.retry_after > 0
        /\ last.resp.retry_after <= RateTtl

\* C27: concurrent misses on one key.  There is no de-duplication: while one
\* caller is loading a key that is not cached, another caller's read of the
\* key can start, and it misses and goes to the loader itself.  Each caller
\* that missed queries the table once and stores and returns the row that its
\* own query found; after a caller's set the cache holds that caller's value,
\* so once all have completed it holds the value of the last to call set.
C27_NoDeduplication ==
    \A g \in Handlers :
        (req[g].pc \in {"ca_load", "ca_set"}
            /\ ~Live(store, now, ProductKey(req[g].id))) =>
            \A h \in Handlers \ {g} :
                req[h].pc = "idle" =>
                    ENABLED (CaGet(h, req[g].id) /\ req'[h].pc = "ca_load")

C27_EachCallerLoadsAndSets ==
    \A h \in Handlers :
        /\ (req[h].pc = "ca_load" /\ req'[h].pc = "ca_set") =>
              /\ req'[h].id = req[h].id
              /\ req'[h].data = product_data(req[h].id, db[req[h].id])
        /\ (req[h].pc = "ca_set" /\ req'[h].pc = "ca_set") => req'[h] = req[h]
        /\ (req[h].pc = "ca_set" /\ req'[h].pc = "idle") =>
              /\ last'.op = "cache_aside"
              /\ last'.status = 200
              /\ last'.loads = 1
              /\ last'.product = req[h].data
              /\ store'[ProductKey(req[h].id)].val = json_dumps(req[h].data)
              /\ ~Expired(store', now', ProductKey(req[h].id))

C27_ConcurrentMisses ==
    /\ []C27_NoDeduplication
    /\ [][C27_EachCallerLoadsAndSets]_vars

\* Two callers missed on the same key and each queried the table: one has
\* stored its row and returned it, the other holds the row its own query found
\* and is about to store it.
C27_Witness ==
    \E g \in Handlers :
        /\ req[g].pc = "ca_set"
        /\ last.op = "cache_aside"
        /\ last.id = req[g].id
        /\ last.status = 200
        /\ ~last.hit
        /\ last.loads = 1
        /\ store[ProductKey(last.id)].val = json_dumps(last.product)

----------------------------------------------------------------------------
(* Expired entries and the other commands, checked under SpecCommands.      *)

\* C28: an entry whose expiry time has been reached and which is still in the
\* key space is absent for every command, not only for a get.  A delete of it
\* reports that nothing was removed, as for a key that is not there; an
\* increment starts a new counter at 1, without the old value or expiry; and
\* the remaining TTL asked for it is the reply for a missing key.  A delete
\* reports a removal only of an entry that has not expired.
C28_ExpiredIsAbsentForEveryCommand ==
    [][ /\ (last'.op = "delete") =>
              /\ last'.res = (IF last'.pre = "live" THEN 1 ELSE 0)
              /\ last'.key \notin DOMAIN store'
        /\ (last'.op = "incr" /\ last'.pre # "live") =>
              /\ last'.res = 1
              /\ store'[last'.key] = [val |-> IntStr(1), exp |-> NoExpiry]
        /\ (last'.op = "incr" /\ last'.pre = "live") =>
              /\ last'.res = store[last'.key].val.int + 1
              /\ store'[last'.key].exp = store[last'.key].exp
        /\ (last'.op = "ttl" /\ last'.pre # "live") => last'.res = -2
        /\ (last'.op = "ttl" /\ last'.pre = "live") => last'.res # -2
        /\ (last'.op \in {"delete", "incr", "ttl"} /\ last'.pre = "expired") =>
              /\ last'.key \in DOMAIN store
              /\ store[last'.key].exp # NoExpiry
              /\ now >= store[last'.key].exp ]_vars

\* A delete has just found the session's entry expired and not yet removed,
\* and reported that nothing was removed.
C28_Witness ==
    /\ last.op = "delete"
    /\ last.pre = "expired"
    /\ last.res = 0

\* An increment has just found the counter expired and not yet removed, and
\* started a new one.
C28_WitnessIncr ==
    /\ last.op = "incr"
    /\ last.pre = "expired"
    /\ last.res = 1

\* The remaining TTL has just been asked for an expired entry.
C28_WitnessTtl ==
    /\ last.op = "ttl"
    /\ last.pre = "expired"

----------------------------------------------------------------------------
(* A sweep of expired entries, checked under SpecStore.                     *)

\* The key spaces a sweep can leave behind: s without some, at least one, of
\* the entries whose expiry time has been reached.
C29_Swept(s, t) ==
    LET dead == {k \in DOMAIN s : Expired(s, t, k)}
    IN  {[x \in DOMAIN s \ D |-> s[x]] : D \in (SUBSET dead) \ {{}}}

\* Two replies of a command are the same when the results are equal and the
\* key spaces agree on every entry that has not expired.
C29_SameReply(a, b, t) ==
    /\ a.res = b.res
    /\ ReapAll(a.store, t) = ReapAll(b.store, t)

----------------------------------------------------------------------------
(* The login lockout, checked under SpecLogin.                              *)

\* C30: the login lockout.  While a client is locked out (5 or more failed
\* logins are recorded for it and the lockout time has not been reached), a
\* login attempt that arrives is answered 429 at once, whatever its
\* credentials; no session is created, and the record of the failures stays
\* as it is: the lockout ends only when its time has elapsed.  A successful
\* login sets the client's failure count to 0.
C30_LockoutHolds ==
    [][ /\ \A ip \in ClientIps :
              LockedOut(login_attempts, now, ip) =>
                  /\ sessions_db' = sessions_db
                  /\ ip \in DOMAIN login_attempts'
                  /\ login_attempts'[ip].count >= LOCKOUT_AFTER
                  /\ login_attempts'[ip].lockout_until >= login_attempts[ip].lockout_until
                  /\ \A h \in Handlers : req[h].pc = "idle" => req'[h].pc = "idle"
                  /\ (last'.op = "login_stateful" /\ req' = req) => last'.status = 429
        /\ \A h \in Handlers :
              (req[h].pc = "lg_reset" /\ req'[h].pc = "lg_session") =>
                  (req[h].ip \in DOMAIN login_attempts =>
                      login_attempts'[req[h].ip].count = 0) ]_vars

\* A locked-out client has just been answered 429 although its credentials
\* were valid.
C30_Witness ==
    /\ last.op = "login_stateful"
    /\ last.status = 429
    /\ last.valid
    /\ LockedOut(login_attempts, now, last.ip)
============================================================================
